---- MODULE Spec2Model ----
(***************************************************************************)
(* Model of the PSF2 bitmap font parser (src/src/lib.rs): Font::new and    *)
(* the header accessors, glyph lookup, the Glyph row iterator and the      *)
(* GlyphRow pixel iterator.                                                *)
(*                                                                         *)
(* A u32 is a record [hi, lo] of two 16-bit limbs, so that the whole       *)
(* 32-bit range, and the overflow of checked and wrapping arithmetic, is   *)
(* represented exactly.  A usize is a natural number: the target is taken  *)
(* to have a usize of 64 bits, where `u32 as usize` is exact and           *)
(* `width + 7` cannot overflow.  (On a 32-bit usize a header width of      *)
(* 2^32 - 7 or more overflows `width + 7`; that target is not modelled.)   *)
(***************************************************************************)
EXTENDS Integers, Sequences, FiniteSets, TLC

VARIABLES
    input,   \* the byte buffer handed to Font::new
    font,    \* the Result of Font::new (Absent before the call)
    glyph,   \* the Option<Glyph> of the last lookup, as stepped since (or Panic)
    glyph0,  \* that glyph as the lookup returned it
    index,   \* the index of the last lookup
    rowsF,   \* the rows Glyph::next has returned, in order
    rowsB,   \* the rows Glyph::next_back has returned, in order
    row,     \* the Option<GlyphRow> of the last glyph step, as stepped since
    row0,    \* that row as the glyph step returned it
    pixF,    \* the pixels GlyphRow::next has returned, in order
    pixB,    \* the pixels GlyphRow::next_back has returned, in order
    pixel,   \* the Option<bool> of the last row step
    bools,   \* the pixel sequence a directly constructed row was packed from
    copy,    \* a clone of the glyph (Absent until it is taken), as stepped since
    copy0,   \* that clone as it was taken
    copyF,   \* the rows next has returned on the clone, in order
    copyB    \* the rows next_back has returned on the clone, in order

\* the clone and its history
copies == <<copy, copy0, copyF, copyB>>

vars == <<input, font, glyph, glyph0, index, rowsF, rowsB, row, row0, pixF, pixB, pixel, bools,
          copy, copy0, copyF, copyB>>

(***************************************************************************)
(* Bounds of the model.                                                    *)
(***************************************************************************)
\* longest glyph table (bytes after the 32-byte header) of an input buffer
MaxPayload == 3
\* most rows recorded from one end of a glyph (a glyph of width 0 never ends)
MaxRows == 5
\* widest row whose pixel sequences are enumerated in SpecRow
MaxW == 9

(***************************************************************************)
(* Option and Result values.                                               *)
(***************************************************************************)
None == [tag |-> "None"]
Some(v) == [tag |-> "Some", val |-> v]
Ok(v) == [tag |-> "Ok", val |-> v]
Err(e) == [tag |-> "Err", err |-> e]
\* an operation that aborted (arithmetic overflow in a build with overflow
\* checks, division by zero)
Panic == [tag |-> "Panic"]
\* no call made yet
Absent == [tag |-> "Absent"]

Reverse(s) == [k \in 1..Len(s) |-> s[Len(s) + 1 - k]]

(***************************************************************************)
(* u32 arithmetic on 16-bit limbs.                                         *)
(***************************************************************************)
Limb == 65536

U32(h, l) == [hi |-> h, lo |-> l]

\* the u32 of a natural number below 2^31
ToU32(n) == U32(n \div Limb, n % Limb)

\* `as usize` of a u32 (exact where the value is below 2^31)
AsUsize(u) == u.hi * Limb + u.lo

\* full 32-bit product of two 16-bit limbs
Mul16(x, y) ==
    LET p1 == (x \div 256) * y
        p0 == (x % 256) * y
        low == (p1 % 256) * 256 + p0
    IN  U32((p1 \div 256) + (low \div Limb), low % Limb)

MulOverflows(a, b) ==
    \/ a.hi # 0 /\ b.hi # 0
    \/ Mul16(a.hi, b.lo).hi # 0
    \/ Mul16(a.lo, b.hi).hi # 0
    \/ Mul16(a.lo, b.lo).hi + Mul16(a.hi, b.lo).lo + Mul16(a.lo, b.hi).lo >= Limb

wrapping_mul(a, b) ==
    U32((Mul16(a.lo, b.lo).hi + Mul16(a.hi, b.lo).lo + Mul16(a.lo, b.hi).lo) % Limb,
        Mul16(a.lo, b.lo).lo)

AddOverflows(a, b) == a.hi + b.hi + ((a.lo + b.lo) \div Limb) >= Limb

wrapping_add(a, b) ==
    U32((a.hi + b.hi + ((a.lo + b.lo) \div Limb)) % Limb, (a.lo + b.lo) % Limb)

checked_mul_wrapping(a, b) == Some(wrapping_mul(a, b))

checked_mul(a, b) == IF MulOverflows(a, b) THEN None ELSE Some(wrapping_mul(a, b))

checked_add(a, b) == IF AddOverflows(a, b) THEN None ELSE Some(wrapping_add(a, b))

\* u32 (widened to usize) compared with a buffer length or slice bound
U32Gt(u, n) == u.hi # 0 \/ u.lo > n

U32Le(a, b) == a.hi < b.hi \/ (a.hi = b.hi /\ a.lo <= b.lo)

from_le_bytes(b) == U32(b[3] + 256 * b[4], b[1] + 256 * b[2])

to_le_bytes(u) == <<u.lo % 256, u.lo \div 256, u.hi % 256, u.hi \div 256>>

(***************************************************************************)
(* Font                                                                    *)
(***************************************************************************)
MAGIC == <<114, 181, 74, 134>>

HEADER_LEN == 32

headersize(d) == from_le_bytes(SubSeq(d, 9, 12))

flags(d) == from_le_bytes(SubSeq(d, 13, 16))

length(d) == from_le_bytes(SubSeq(d, 17, 20))

charsize(d) == from_le_bytes(SubSeq(d, 21, 24))

height(d) == from_le_bytes(SubSeq(d, 25, 28))

\* width read from the height field
width_of_height(d) == from_le_bytes(SubSeq(d, 25, 28))

width(d) == from_le_bytes(SubSeq(d, 29, 32))

\* Font::new comparing the magic before it knows the header is there
FontNew_magic_first(d) ==
    IF Len(d) >= 4 /\ SubSeq(d, 1, 4) # MAGIC THEN Err("BadMagic")
    ELSE IF Len(d) < HEADER_LEN THEN Err("UnexpectedEnd")
    ELSE LET glyphs_size == checked_mul(charsize(d), length(d)) IN
         IF glyphs_size = None THEN Err("UnexpectedEnd")
         ELSE LET glyphs_end == checked_add(headersize(d), glyphs_size.val) IN
              IF glyphs_end = None THEN Err("UnexpectedEnd")
              ELSE IF U32Gt(glyphs_end.val, Len(d)) THEN Err("UnexpectedEnd")
              ELSE Ok([data |-> d])

\* Font::new checking the glyph table bounds before the magic
FontNew_bounds_first(d) ==
    IF Len(d) < HEADER_LEN THEN Err("UnexpectedEnd")
    ELSE LET glyphs_size == checked_mul(charsize(d), length(d)) IN
         IF glyphs_size = None THEN Err("UnexpectedEnd")
         ELSE LET glyphs_end == checked_add(headersize(d), glyphs_size.val) IN
              IF glyphs_end = None THEN Err("UnexpectedEnd")
              ELSE IF U32Gt(glyphs_end.val, Len(d)) THEN Err("UnexpectedEnd")
              ELSE IF SubSeq(d, 1, 4) # MAGIC THEN Err("BadMagic")
              ELSE Ok([data |-> d])

FontNew(d) ==
    IF Len(d) < HEADER_LEN THEN Err("UnexpectedEnd")
    ELSE IF SubSeq(d, 1, 4) # MAGIC THEN Err("BadMagic")
    ELSE LET glyphs_size == checked_mul(charsize(d), length(d)) IN
         IF glyphs_size = None THEN Err("UnexpectedEnd")
         ELSE LET glyphs_end == checked_add(headersize(d), glyphs_size.val) IN
              IF glyphs_end = None THEN Err("UnexpectedEnd")
              ELSE IF U32Gt(glyphs_end.val, Len(d)) THEN Err("UnexpectedEnd")
              ELSE Ok([data |-> d])

(***************************************************************************)
(* Input buffers.                                                          *)
(***************************************************************************)
MagicSet == {MAGIC, <<114, 181, 74, 0>>, <<0, 181, 74, 134>>}

HeadersizeSet == {U32(0, 32), U32(0, 34), U32(65535, 65535)}

LengthSet == {U32(0, 0), U32(0, 1), U32(0, 2), U32(1, 0)}

CharsizeSet == {U32(0, 0), U32(0, 1), U32(0, 2), U32(0, 3), U32(1, 0), U32(32768, 0)}

HeightSet == {U32(0, 2), U32(0, 258)}

WidthSet == {U32(0, 0), U32(0, 1), U32(0, 8), U32(0, 9)}

PayloadBytes == {3, 128}

ShortLens == {0, 3, 4, 31}

\* glyph tables of up to MaxPayload bytes: one byte value at the odd places and
\* one at the even places
Payloads ==
    {[k \in 1..n |-> IF k % 2 = 1 THEN a ELSE b] :
        n \in 0..MaxPayload, a \in PayloadBytes, b \in PayloadBytes}

Buffer(m, hs, len, cs, h, w, p) ==
    m \o <<0, 0, 0, 0>> \o to_le_bytes(hs) \o <<0, 0, 0, 0>> \o to_le_bytes(len)
      \o to_le_bytes(cs) \o to_le_bytes(h) \o to_le_bytes(w) \o p

Inputs ==
    LET full == {Buffer(m, hs, len, cs, h, w, p) :
                    m \in MagicSet, hs \in HeadersizeSet, len \in LengthSet,
                    cs \in CharsizeSet, h \in HeightSet, w \in WidthSet,
                    p \in Payloads}
    IN  full \cup {SubSeq(b, 1, n) : b \in {x \in full : Len(x) = HEADER_LEN}, n \in ShortLens}

IndexSet == {U32(0, 0), U32(0, 1), U32(0, 2), U32(32768, 0), U32(65535, 65535)}

AsciiSet == {1, 255}

(***************************************************************************)
(* Glyph lookup.  `headersize + i * charsize` and `offset + charsize` are  *)
(* plain u32 arithmetic: they wrap in a build without overflow checks and  *)
(* abort in a build with them.                                             *)
(***************************************************************************)
\* the offset computed without the glyph size
get_index_offset_unscaled(d, i) == wrapping_add(headersize(d), i)

get_index_offset(d, i) == wrapping_add(headersize(d), wrapping_mul(i, charsize(d)))

get_index_overflows(d, i) ==
    \/ MulOverflows(i, charsize(d))
    \/ AddOverflows(headersize(d), wrapping_mul(i, charsize(d)))
    \/ AddOverflows(get_index_offset(d, i), charsize(d))

\* slice.get(start..end) on u32 bounds widened to usize
SliceGet(d, start, end) ==
    IF U32Gt(end, Len(d)) \/ ~U32Le(start, end) THEN None
    ELSE Some(SubSeq(d, start.lo + 1, end.lo))

get_index(d, i) ==
    LET offset == get_index_offset(d, i)
        data == SliceGet(d, offset, wrapping_add(offset, charsize(d)))
    IN  IF data = None THEN None
        ELSE Some([data |-> data.val, width |-> AsUsize(width(d))])

\* every outcome a build of get_index can produce
GetIndexOutcomes(d, i) ==
    {get_index(d, i)} \cup (IF get_index_overflows(d, i) THEN {Panic} ELSE {})

\* get_ascii(c) is get_index(c as u32)
get_ascii(d, c) == GetIndexOutcomes(d, ToU32(c))

(***************************************************************************)
(* Glyph: iterator over the rows of a glyph.                               *)
(***************************************************************************)
\* the row size rounded down
GlyphAdvance_floor(g) == g.width \div 8

GlyphAdvance(g) == (g.width + 7) \div 8

\* next that stops when exactly one row is left
GlyphNext_stops_early(g) ==
    LET advance == GlyphAdvance(g) IN
    IF Len(g.data) <= advance THEN [item |-> None, self |-> g]
    ELSE [item |-> Some([data |-> SubSeq(g.data, 1, advance), bit |-> 0, width |-> g.width]),
          self |-> [g EXCEPT !.data = SubSeq(g.data, advance + 1, Len(g.data))]]

GlyphNext(g) ==
    LET advance == GlyphAdvance(g) IN
    IF Len(g.data) < advance THEN [item |-> None, self |-> g]
    ELSE [item |-> Some([data |-> SubSeq(g.data, 1, advance), bit |-> 0, width |-> g.width]),
          self |-> [g EXCEPT !.data = SubSeq(g.data, advance + 1, Len(g.data))]]

\* next_back that returns the last row but removes a row from the front
GlyphNextBack_drops_front(g) ==
    LET advance == GlyphAdvance(g) IN
    IF Len(g.data) < advance THEN [item |-> None, self |-> g]
    ELSE [item |-> Some([data |-> SubSeq(g.data, Len(g.data) - advance + 1, Len(g.data)),
                         bit |-> 0, width |-> g.width]),
          self |-> [g EXCEPT !.data = SubSeq(g.data, advance + 1, Len(g.data))]]

GlyphNextBack(g) ==
    LET advance == GlyphAdvance(g) IN
    IF Len(g.data) < advance THEN [item |-> None, self |-> g]
    ELSE [item |-> Some([data |-> SubSeq(g.data, Len(g.data) - advance + 1, Len(g.data)),
                         bit |-> 0, width |-> g.width]),
          self |-> [g EXCEPT !.data = SubSeq(g.data, 1, Len(g.data) - advance)]]

\* ExactSizeIterator::len of a Glyph: data.len() / width aborts on width 0
GlyphLen(g) == IF g.width = 0 THEN Panic ELSE Some(Len(g.data) \div g.width)

GlyphData(g) == g.data

(***************************************************************************)
(* GlyphRow: iterator over the pixels of a row.                            *)
(***************************************************************************)
\* the masks least significant bit first
BITS_lsb_first == <<1, 2, 4, 8, 16, 32, 64, 128>>

BITS == <<128, 64, 32, 16, 8, 4, 2, 1>>

\* byte & mask != 0 for a one-bit mask
BitSet(byte, mask) == (byte \div mask) % 2 = 1

\* data.get_unchecked(idx): out of bounds is undefined behaviour, any byte
GetUnchecked(data, idx) == IF idx < Len(data) THEN {data[idx + 1]} ELSE 0..255

\* next that drops a byte of the span once the cursor has passed it
RowNext_consumes(r, byte) ==
    IF r.bit >= r.width THEN [item |-> None, self |-> r]
    ELSE [item |-> Some(BitSet(byte, BITS[(r.bit % 8) + 1])),
          self |-> [r EXCEPT !.bit = r.bit + 1,
                             !.data = IF r.bit % 8 = 7 THEN Tail(r.data) ELSE r.data]]

RowNext(r, byte) ==
    IF r.bit >= r.width THEN [item |-> None, self |-> r]
    ELSE [item |-> Some(BitSet(byte, BITS[(r.bit % 8) + 1])),
          self |-> [r EXCEPT !.bit = r.bit + 1]]

\* next_back that takes one pixel more after the window has closed
RowNextBack_past_end(r, byte) ==
    IF r.bit > r.width THEN [item |-> None, self |-> r]
    ELSE LET bit == r.width - 1 IN
         [item |-> Some(BitSet(byte, BITS[(bit % 8) + 1])),
          self |-> [r EXCEPT !.width = bit]]

\* next_back testing the bit under the forward cursor
RowNextBack_front_bit(r, byte) ==
    IF r.bit >= r.width THEN [item |-> None, self |-> r]
    ELSE LET bit == r.width - 1 IN
         [item |-> Some(BitSet(byte, BITS[(r.bit % 8) + 1])),
          self |-> [r EXCEPT !.width = bit]]

RowNextBack(r, byte) ==
    IF r.bit >= r.width THEN [item |-> None, self |-> r]
    ELSE LET bit == r.width - 1 IN
         [item |-> Some(BitSet(byte, BITS[(bit % 8) + 1])),
          self |-> [r EXCEPT !.width = bit]]

\* the byte index a forward / backward step reads (bit >> 3)
RowNextIndex(r) == r.bit \div 8

RowNextBackIndex(r) == (r.width - 1) \div 8

\* the values the step's unchecked read can see; an exhausted row reads nothing
RowNextReads(r) ==
    IF r.bit >= r.width THEN {0} ELSE GetUnchecked(r.data, RowNextIndex(r))

RowNextBackReads(r) ==
    IF r.bit >= r.width THEN {0} ELSE GetUnchecked(r.data, RowNextBackIndex(r))

\* len that forgets the forward cursor
RowLen_of_width(r) == r.width

RowLen(r) == r.width - r.bit

RowData(r) == r.data

(***************************************************************************)
(* The program: construct a font, look glyphs up, step glyphs and rows.    *)
(***************************************************************************)
Init ==
    /\ input \in Inputs
    /\ font = Absent
    /\ glyph = Absent
    /\ glyph0 = Absent
    /\ index = Absent
    /\ rowsF = <<>>
    /\ rowsB = <<>>
    /\ row = Absent
    /\ row0 = Absent
    /\ pixF = <<>>
    /\ pixB = <<>>
    /\ pixel = Absent
    /\ bools = <<>>
    /\ copy = Absent
    /\ copy0 = Absent
    /\ copyF = <<>>
    /\ copyB = <<>>

\* Font::new(data)
New ==
    /\ font = Absent
    /\ font' = FontNew(input)
    /\ UNCHANGED <<input, glyph, glyph0, index, rowsF, rowsB, row, row0, pixF, pixB, pixel, bools, copies>>

\* a lookup hands out a fresh glyph view
Looked(i, g) ==
    /\ index' = i
    /\ glyph' = g
    /\ glyph0' = g
    /\ rowsF' = <<>>
    /\ rowsB' = <<>>
    /\ row' = Absent
    /\ row0' = Absent
    /\ pixF' = <<>>
    /\ pixB' = <<>>
    /\ pixel' = Absent
    /\ UNCHANGED <<input, font, bools, copies>>

\* font.get_index(i).  A lookup only reads the font and returns a view that
\* shares nothing with earlier views, so a run follows the view of one lookup.
GetIndex ==
    /\ font.tag = "Ok"
    /\ glyph = Absent
    /\ \E i \in IndexSet : \E g \in GetIndexOutcomes(font.val.data, i) : Looked(i, g)

\* font.get_ascii(c)
GetAscii ==
    /\ font.tag = "Ok"
    /\ glyph = Absent
    /\ \E c \in AsciiSet : \E g \in get_ascii(font.val.data, c) : Looked(ToU32(c), g)

\* a glyph step hands out a fresh row view, or None
Stepped(r) ==
    /\ glyph' = Some(r.self)
    /\ row' = r.item
    /\ row0' = r.item
    /\ pixF' = <<>>
    /\ pixB' = <<>>
    /\ pixel' = Absent
    /\ UNCHANGED <<input, font, glyph0, index, bools, copies>>

\* a glyph of width 0 yields empty rows for ever: record at most MaxRows
MayStep(g) == GlyphAdvance(g) > 0 \/ Len(rowsF) + Len(rowsB) < MaxRows

\* glyph.next()
GlyphNextStep ==
    /\ glyph.tag = "Some"
    /\ MayStep(glyph.val)
    /\ LET r == GlyphNext(glyph.val) IN
        /\ Stepped(r)
        /\ rowsF' = IF r.item = None THEN rowsF ELSE Append(rowsF, r.item.val)
        /\ rowsB' = rowsB

\* glyph.next_back()
GlyphNextBackStep ==
    /\ glyph.tag = "Some"
    /\ MayStep(glyph.val)
    /\ LET r == GlyphNextBack(glyph.val) IN
        /\ Stepped(r)
        /\ rowsB' = IF r.item = None THEN rowsB ELSE Append(rowsB, r.item.val)
        /\ rowsF' = rowsF

\* row.next()
RowNextStep ==
    /\ row.tag = "Some"
    /\ \E byte \in RowNextReads(row.val) :
        LET r == RowNext(row.val, byte) IN
        /\ row' = Some(r.self)
        /\ pixel' = r.item
        /\ pixF' = IF r.item = None THEN pixF ELSE Append(pixF, r.item.val)
        /\ pixB' = pixB
    /\ UNCHANGED <<input, font, glyph, glyph0, index, rowsF, rowsB, row0, bools, copies>>

\* row.next_back()
RowNextBackStep ==
    /\ row.tag = "Some"
    /\ \E byte \in RowNextBackReads(row.val) :
        LET r == RowNextBack(row.val, byte) IN
        /\ row' = Some(r.self)
        /\ pixel' = r.item
        /\ pixB' = IF r.item = None THEN pixB ELSE Append(pixB, r.item.val)
        /\ pixF' = pixF
    /\ UNCHANGED <<input, font, glyph, glyph0, index, rowsF, rowsB, row0, bools, copies>>

Next ==
    \/ New
    \/ GetIndex
    \/ GetAscii
    \/ GlyphNextStep
    \/ GlyphNextBackStep
    \/ RowNextStep
    \/ RowNextBackStep

Spec == Init /\ [][Next]_vars

(***************************************************************************)
(* Rows constructed directly from a pixel sequence, as the unit tests      *)
(* construct them: GlyphRow { data, bit: 0, width }.                       *)
(***************************************************************************)
\* the value of pixel p (from 1) of bs in its byte, 0 beyond the row's end
PackBit(bs, p, v) == IF p <= Len(bs) /\ bs[p] THEN v ELSE 0

\* pixels packed most significant bit first, zero-padded to a whole byte
Pack(bs) ==
    [j \in 1..((Len(bs) + 7) \div 8) |->
        PackBit(bs, 8 * j - 7, 128) + PackBit(bs, 8 * j - 6, 64)
      + PackBit(bs, 8 * j - 5, 32) + PackBit(bs, 8 * j - 4, 16)
      + PackBit(bs, 8 * j - 3, 8) + PackBit(bs, 8 * j - 2, 4)
      + PackBit(bs, 8 * j - 1, 2) + PackBit(bs, 8 * j, 1)]

PixelSeqs == UNION {[1..w -> BOOLEAN] : w \in 0..MaxW}

InitRow ==
    /\ bools \in PixelSeqs
    /\ row = Some([data |-> Pack(bools), bit |-> 0, width |-> Len(bools)])
    /\ row0 = row
    /\ input = <<>>
    /\ font = Absent
    /\ glyph = Absent
    /\ glyph0 = Absent
    /\ index = Absent
    /\ rowsF = <<>>
    /\ rowsB = <<>>
    /\ pixF = <<>>
    /\ pixB = <<>>
    /\ pixel = Absent
    /\ copy = Absent
    /\ copy0 = Absent
    /\ copyF = <<>>
    /\ copyB = <<>>

NextRow ==
    \/ RowNextStep
    \/ RowNextBackStep

SpecRow == InitRow /\ [][NextRow]_vars

(***************************************************************************)
(* Several views of one font: the glyph of a lookup, the row of its last   *)
(* step, and a clone of the glyph (Glyph derives Clone), stepped in any    *)
(* order.                                                                  *)
(***************************************************************************)
\* fonts of one glyph that fills the glyph table
ViewWidthSet == {U32(0, 1), U32(0, 9)}

ViewInputs ==
    {Buffer(MAGIC, U32(0, HEADER_LEN), U32(0, 1), U32(0, Len(p)), U32(0, 2), w, p) :
        w \in ViewWidthSet, p \in Payloads}

InitViews ==
    /\ Init
    /\ input \in ViewInputs

\* glyph.clone()
CloneGlyph ==
    /\ glyph.tag = "Some"
    /\ copy = Absent
    /\ copy' = glyph
    /\ copy0' = glyph
    /\ copyF' = <<>>
    /\ copyB' = <<>>
    /\ UNCHANGED <<input, font, glyph, glyph0, index, rowsF, rowsB, row, row0, pixF, pixB,
                   pixel, bools>>

\* next() on the clone, which by mistake also steps the glyph it was cloned from
CopyNextStep_shared ==
    /\ copy.tag = "Some"
    /\ LET r == GlyphNext(copy.val) IN
        /\ copy' = Some(r.self)
        /\ copyF' = IF r.item = None THEN copyF ELSE Append(copyF, r.item.val)
        /\ copyB' = copyB
    /\ glyph' = Some(GlyphNext(glyph.val).self)
    /\ UNCHANGED <<input, font, glyph0, index, rowsF, rowsB, row, row0, pixF, pixB,
                   pixel, bools, copy0>>

\* next() on the clone
CopyNextStep ==
    /\ copy.tag = "Some"
    /\ LET r == GlyphNext(copy.val) IN
        /\ copy' = Some(r.self)
        /\ copyF' = IF r.item = None THEN copyF ELSE Append(copyF, r.item.val)
        /\ copyB' = copyB
    /\ UNCHANGED <<input, font, glyph, glyph0, index, rowsF, rowsB, row, row0, pixF, pixB,
                   pixel, bools, copy0>>

\* next_back() on the clone
CopyNextBackStep ==
    /\ copy.tag = "Some"
    /\ LET r == GlyphNextBack(copy.val) IN
        /\ copy' = Some(r.self)
        /\ copyB' = IF r.item = None THEN copyB ELSE Append(copyB, r.item.val)
        /\ copyF' = copyF
    /\ UNCHANGED <<input, font, glyph, glyph0, index, rowsF, rowsB, row, row0, pixF, pixB,
                   pixel, bools, copy0>>

NextViews ==
    \/ Next
    \/ CloneGlyph
    \/ CopyNextStep
    \/ CopyNextBackStep

SpecViews == InitViews /\ [][NextViews]_vars

(***************************************************************************)
(* Font::new                                                               *)
(***************************************************************************)
\* headersize + charsize * length <= buffer length, in unbounded arithmetic
\* (a buffer of the model is shorter than 2^16 bytes)
TableFits(d) ==
    LET hs == headersize(d)
        cs == charsize(d)
        n == length(d)
    IN  /\ hs.hi = 0
        /\ hs.lo <= Len(d)
        /\ \/ cs = U32(0, 0)
           \/ n = U32(0, 0)
           \/ /\ cs.hi = 0 /\ cs.lo <= Len(d)
              /\ n.hi = 0 /\ n.lo <= Len(d)
              /\ hs.lo + cs.lo * n.lo <= Len(d)

MagicOk(d) == Len(d) >= 4 /\ d[1] = 114 /\ d[2] = 181 /\ d[3] = 74 /\ d[4] = 134

\* the little-endian u32 stored at byte offsets off .. off+4 of d
StoredAt(d, off) == U32(d[off + 3] + 256 * d[off + 4], d[off + 1] + 256 * d[off + 2])

\* C1: a buffer of at least 32 bytes with the magic and with
\* headersize + charsize*length <= buffer length is accepted by Font::new, and
\* width() and height() of the font are the little-endian values stored at
\* offsets 28 and 24.
C1_NewAccepts ==
    (font # Absent /\ Len(input) >= 32 /\ MagicOk(input) /\ TableFits(input))
        => /\ font.tag = "Ok"
           /\ width(font.val.data) = StoredAt(input, 28)
           /\ height(font.val.data) = StoredAt(input, 24)

C1_Witness ==
    /\ font.tag = "Ok"
    /\ TableFits(input)
    /\ width(font.val.data) = U32(0, 9)
    /\ height(font.val.data) = U32(0, 258)
    /\ length(input) = U32(0, 1)

\* C2: a buffer shorter than 32 bytes is rejected with UnexpectedEnd, also
\* when the bytes it has are not the magic.
C2_ShortIsUnexpectedEnd ==
    (font # Absent /\ Len(input) < 32) => font = Err("UnexpectedEnd")

C2_Witness ==
    /\ font = Err("UnexpectedEnd")
    /\ Len(input) = 31
    /\ ~MagicOk(input)

\* C3: a buffer of at least 32 bytes without the magic is rejected with
\* BadMagic, whatever the glyph table bounds of its header are.
C3_BadMagic ==
    (font # Absent /\ Len(input) >= 32 /\ ~MagicOk(input)) => font = Err("BadMagic")

C3_Witness ==
    /\ font = Err("BadMagic")
    /\ Len(input) >= 32
    /\ ~TableFits(input)
    /\ MulOverflows(charsize(input), length(input))

\* C4: with the magic present, a glyph table that does not fit the buffer
\* (the product or the sum leaves the u32 range, or the end lies beyond the
\* buffer) is rejected with UnexpectedEnd; so every font there is has
\* headersize + charsize*length <= buffer length and at least 32 bytes.
C4_BoundsChecked ==
    /\ (font # Absent /\ Len(input) >= 32 /\ MagicOk(input) /\ ~TableFits(input))
            => font = Err("UnexpectedEnd")
    /\ font.tag = "Ok" => (TableFits(font.val.data) /\ Len(font.val.data) >= 32)

\* the wrapped product would fit: charsize = length = 2^16
C4_Witness ==
    /\ font = Err("UnexpectedEnd")
    /\ MagicOk(input)
    /\ Len(input) >= 32
    /\ charsize(input) = U32(1, 0)
    /\ length(input) = U32(1, 0)
    /\ headersize(input) = U32(0, 32)

(***************************************************************************)
(* Glyph lookup                                                            *)
(***************************************************************************)
U32Lt(a, b) == ~U32Le(b, a)

Looked_up == font.tag = "Ok" /\ glyph0 # Absent

\* headersize + i * charsize stays inside the u32 range
OffsetExact(d, i) ==
    /\ ~MulOverflows(i, charsize(d))
    /\ ~AddOverflows(headersize(d), wrapping_mul(i, charsize(d)))

\* C5: on a valid font, a lookup of an index i >= length whose offset
\* headersize + i*charsize does not wrap returns None.
C5_BeyondLengthIsNone ==
    (Looked_up /\ ~U32Lt(index, length(font.val.data)) /\ OffsetExact(font.val.data, index))
        => glyph0 = None

\* for i < length on a valid font: headersize + i * charsize, as a number
GlyphStart(d, i) ==
    IF charsize(d) = U32(0, 0) THEN headersize(d).lo
    ELSE headersize(d).lo + i.lo * charsize(d).lo

\* C6: on a valid font, a lookup of an index i < length returns a glyph whose
\* data is the charsize bytes of the buffer from headersize + i*charsize on
\* and whose width is the font's width(); and a lookup whose byte range
\* (computed without overflow) is not inside the buffer returns None.
C6_LookupSlice ==
    /\ (Looked_up /\ U32Lt(index, length(font.val.data)))
            => /\ glyph0.tag = "Some"
               /\ LET start == GlyphStart(font.val.data, index) IN
                  glyph0.val.data =
                      [k \in 1..charsize(font.val.data).lo |-> input[start + k]]
               /\ glyph0.val.width = StoredAt(input, 28).lo
    /\ (Looked_up /\ ~get_index_overflows(font.val.data, index)
            /\ U32Gt(wrapping_add(get_index_offset(font.val.data, index),
                                  charsize(font.val.data)), Len(input)))
            => glyph0 = None

\* the second glyph of a font of two one-byte glyphs, whose bytes differ
C6_Witness ==
    /\ Looked_up
    /\ index = U32(0, 1)
    /\ length(font.val.data) = U32(0, 2)
    /\ charsize(font.val.data) = U32(0, 1)
    /\ glyph0 = Some([data |-> <<128>>, width |-> 9])
    /\ input[33] = 3

(***************************************************************************)
(* Glyph traversal                                                         *)
(***************************************************************************)
\* every row of g from the front, for a glyph whose rows are not empty
RECURSIVE GlyphForwardAll(_)
GlyphForwardAll(g) ==
    LET r == GlyphNext(g) IN
    IF r.item = None THEN <<>> ELSE <<r.item.val>> \o GlyphForwardAll(r.self)

\* the glyph of the last lookup has reported its end
GlyphEnded == glyph.tag = "Some" /\ row = None

\* C7: a glyph fresh from a lookup is height() rows of width() bits: stepped
\* forward to its end it yields height() rows of ceil(width()/8) bytes each
\* and no byte is left over.
C7_FreshGlyphIsHeightRows ==
    (Looked_up /\ GlyphEnded /\ rowsB = <<>>)
        => /\ Len(rowsF) = AsUsize(height(font.val.data))
           /\ \A k \in 1..Len(rowsF) :
                Len(rowsF[k].data) = (AsUsize(width(font.val.data)) + 7) \div 8
           /\ glyph.val.data = <<>>

\* C10: when a glyph has been stepped to its end, from the front, from the
\* back or from both in any order, the rows taken from the front followed by
\* the reverse of the rows taken from the back are the rows of the pure
\* forward traversal.
C10_GlyphBackwardIsForwardReversed ==
    (Looked_up /\ GlyphEnded /\ GlyphAdvance(glyph0.val) > 0)
        => rowsF \o Reverse(rowsB) = GlyphForwardAll(glyph0.val)

(***************************************************************************)
(* Row traversal                                                           *)
(***************************************************************************)
\* every pixel of r from the front
RECURSIVE RowForwardAll(_)
RowForwardAll(r) ==
    LET n == RowNext(r, CHOOSE byte \in RowNextReads(r) : TRUE) IN
    IF n.item = None THEN <<>> ELSE <<n.item.val>> \o RowForwardAll(n.self)

\* bit b (7 the most significant) of a byte
BitOf(byte, b) == (byte \div (2 ^ b)) % 2 = 1

RowEnded == row.tag = "Some" /\ row.val.bit >= row.val.width

\* C8: a row packed from W booleans, stepped forward only, yields those W
\* booleans in order (pixel k is bit 7 - k mod 8 of byte k div 8) and then
\* ends: the padding bits are not reported.
C8_ForwardDecodesPacked ==
    (row.tag = "Some" /\ pixB = <<>>)
        => /\ Len(pixF) <= Len(bools)
           /\ \A k \in 1..Len(pixF) :
                /\ pixF[k] = bools[k]
                /\ pixF[k] = BitOf(row0.val.data[((k - 1) \div 8) + 1], 7 - ((k - 1) % 8))
           /\ pixel = None => pixF = bools

C8_Witness ==
    /\ pixel = None
    /\ pixB = <<>>
    /\ Len(bools) = 9
    /\ pixF = bools
    /\ bools[7] /\ bools[9] /\ ~bools[1] /\ ~bools[8]

\* C9: when a row has been stepped to its end, from the front, from the back
\* or from both in any order, exactly width pixels were produced, and the
\* pixels taken from the front followed by the reverse of those taken from
\* the back are the pixels of the pure forward traversal.
C9_RowBackwardIsForwardReversed ==
    (row0.tag = "Some" /\ RowEnded)
        => /\ Len(pixF) + Len(pixB) = row0.val.width
           /\ pixF \o Reverse(pixB) = RowForwardAll(row0.val)

C9_Witness ==
    /\ RowEnded
    /\ Len(pixF) = 4
    /\ Len(pixB) = 5
    /\ pixB[1] /\ ~pixB[2] /\ pixF[1] /\ ~pixF[2]

(***************************************************************************)
(* Remaining counts                                                        *)
(***************************************************************************)
\* C11: at every point of a glyph's traversal the reported remaining count
\* (len) is floor(remaining bytes / ceil(width/8)) and is the number of rows
\* that further stepping yields.
C11_GlyphLenIsRowsLeft ==
    (Looked_up /\ glyph.tag = "Some" /\ glyph.val.width > 0)
        => /\ GlyphLen(glyph.val) = Some(Len(glyph.val.data) \div GlyphAdvance(glyph.val))
           /\ GlyphLen(glyph.val) = Some(Len(GlyphForwardAll(glyph.val)))

\* every pixel of r from the back
RECURSIVE RowBackwardAll(_)
RowBackwardAll(r) ==
    LET n == RowNextBack(r, CHOOSE byte \in RowNextBackReads(r) : TRUE) IN
    IF n.item = None THEN <<>> ELSE <<n.item.val>> \o RowBackwardAll(n.self)

\* C12: at every point of a row's traversal, after any forward and backward
\* steps, the reported remaining count (len) is width - cursor, is the width
\* the row began with less the pixels taken so far, and is the number of
\* pixels that further stepping yields from either end.
C12_RowLenIsPixelsLeft ==
    row.tag = "Some"
        => /\ RowLen(row.val) = row.val.width - row.val.bit
           /\ RowLen(row.val) = row0.val.width - (Len(pixF) + Len(pixB))
           /\ RowLen(row.val) = Len(RowForwardAll(row.val))
           /\ RowLen(row.val) = Len(RowBackwardAll(row.val))

C12_Witness ==
    /\ row.tag = "Some"
    /\ row0.val.width = 9
    /\ Len(pixF) = 2
    /\ Len(pixB) = 3
    /\ RowLen(row.val) = 4

(***************************************************************************)
(* Glyph steps                                                             *)
(***************************************************************************)
\* bytes [from, to) (from 0) of a span
Bytes(d, from, to) == [k \in 1..(to - from) |-> d[from + k]]

\* C13: a forward glyph step ends production exactly when fewer than
\* ceil(width/8) bytes remain; otherwise it removes the next ceil(width/8)
\* bytes from the front and returns them as a row with cursor 0 and the
\* glyph's width: the k-th forward row is bytes [k*r, (k+1)*r) of the span the
\* lookup returned.
C13_ForwardStep ==
    (Looked_up /\ glyph.tag = "Some")
        => LET r == (glyph0.val.width + 7) \div 8
               span == glyph0.val.data
           IN  /\ (GlyphNext(glyph.val).item = None) <=> (Len(glyph.val.data) < r)
               /\ row = None => Len(glyph.val.data) < r
               /\ \A k \in 1..Len(rowsF) :
                    rowsF[k] = [data |-> Bytes(span, (k - 1) * r, k * r),
                                bit |-> 0, width |-> glyph0.val.width]
               /\ rowsB = <<>> =>
                    glyph.val.data = Bytes(span, Len(rowsF) * r, Len(span))

\* two one-byte rows taken from the front of a three-byte glyph
C13_Witness ==
    /\ Looked_up
    /\ glyph0.tag = "Some"
    /\ glyph0.val.data = <<3, 128, 3>>
    /\ glyph0.val.width = 8
    /\ Len(rowsF) = 2
    /\ rowsB = <<>>
    /\ glyph.val.data = <<3>>

\* C14: after f forward and b backward glyph steps that returned rows, on a
\* span of L bytes with r = ceil(width/8) bytes a row, the raw-bytes accessor
\* returns bytes [f*r, L - b*r) of the span; the rows returned are the
\* disjoint ranges [k*r, (k+1)*r) from the front and [L - (k+1)*r, L - k*r)
\* from the back; and f + b never exceeds floor(L / r).
C14_StepsConsumeDisjoint ==
    (Looked_up /\ glyph.tag = "Some")
        => LET r == (glyph0.val.width + 7) \div 8
               span == glyph0.val.data
               L == Len(glyph0.val.data)
               f == Len(rowsF)
               b == Len(rowsB)
           IN  /\ (f + b) * r <= L
               /\ r > 0 => f + b <= L \div r
               /\ GlyphData(glyph.val) = Bytes(span, f * r, L - b * r)
               /\ \A k \in 1..f : rowsF[k].data = Bytes(span, (k - 1) * r, k * r)
               /\ \A k \in 1..b : rowsB[k].data = Bytes(span, L - k * r, L - (k - 1) * r)

\* one row from each end of a three-byte glyph of one-byte rows
C14_Witness ==
    /\ Looked_up
    /\ glyph0.tag = "Some"
    /\ glyph0.val.data = <<128, 3, 128>>
    /\ glyph0.val.width = 1
    /\ Len(rowsF) = 1
    /\ Len(rowsB) = 1
    /\ GlyphData(glyph.val) = <<3>>
    /\ rowsF[1].data = <<128>>

(***************************************************************************)
(* Row steps                                                               *)
(***************************************************************************)
\* C15: the raw-bytes accessor of a row returns the row's whole byte span,
\* the one it was created with, after any forward and backward steps and
\* after the end; a forward step moves only the cursor and a backward step
\* only the width bound.
C15_RowDataUnchanged ==
    row.tag = "Some"
        => /\ RowData(row.val) = Pack(bools)
           /\ RowData(row.val) = row0.val.data
           /\ row.val.bit = Len(pixF)
           /\ row.val.width = row0.val.width - Len(pixB)

\* a nine-pixel row stepped to its end from both sides
C15_Witness ==
    /\ RowEnded
    /\ pixel = None
    /\ Len(pixF) = 8
    /\ Len(pixB) = 1
    /\ RowData(row.val) = <<3, 128>>

C17_GlyphFinite ==
    (Looked_up /\ glyph0.tag = "Some")
        => Len(rowsF) + Len(rowsB) <= Len(glyph0.val.data)

\* C18: no operation aborts: Font::new returns a font or an error, and on a
\* valid font every lookup, every step and every remaining-count query of a
\* glyph or row view completes.
C18_NoAbort ==
    /\ font # Absent => font.tag \in {"Ok", "Err"}
    /\ glyph # Panic
    /\ glyph.tag = "Some" => GlyphLen(glyph.val) # Panic
    /\ row.tag = "Some" => RowLen(row.val) >= 0

(***************************************************************************)
(* The row window                                                          *)
(***************************************************************************)
\* C20: a row created with cursor 0 and width W always has
\* 0 <= cursor <= width <= W; and once cursor = width every further forward
\* or backward step returns None and leaves cursor and width as they are.
C20_RowWindowFused ==
    /\ [](row.tag = "Some"
            => /\ 0 <= row.val.bit
               /\ row.val.bit <= row.val.width
               /\ row.val.width <= row0.val.width)
    /\ [][RowEnded => /\ row' = row
                      /\ pixel' = None
                      /\ pixF' = pixF
                      /\ pixB' = pixB]_vars

\* a nine-pixel row, ended from both sides, has answered None
C20_Witness ==
    /\ RowEnded
    /\ pixel = None
    /\ Len(pixF) = 5
    /\ Len(pixB) = 4
    /\ row.val.bit = 5
    /\ row.val.width = 5

(***************************************************************************)
(* Independent views                                                       *)
(***************************************************************************)
\* a glyph view that began as `start` and has returned the rows F from the
\* front and B from the back is where it would be had nothing else run
Isolated(start, cur, F, B) ==
    LET r == (start.width + 7) \div 8
        L == Len(start.data)
    IN  /\ cur = [data |-> Bytes(start.data, Len(F) * r, L - Len(B) * r),
                  width |-> start.width]
        /\ \A k \in 1..Len(F) :
            F[k] = [data |-> Bytes(start.data, (k - 1) * r, k * r),
                    bit |-> 0, width |-> start.width]
        /\ \A k \in 1..Len(B) :
            B[k] = [data |-> Bytes(start.data, L - k * r, L - (k - 1) * r),
                    bit |-> 0, width |-> start.width]

\* C19: no operation changes the font's buffer, and views are independent:
\* no step changes two views at once (a step of the clone leaves the glyph
\* and the row alone, a step of the glyph or the row leaves the clone alone,
\* a row step leaves the glyph alone), so under any interleaving the glyph
\* and its clone each stand where their own steps alone put them.
C19_ViewsIndependent ==
    /\ [](font.tag = "Ok" => font.val.data = input)
    /\ [][input' = input /\ (font.tag = "Ok" => font' = font)]_vars
    /\ [][copy' # copy => (glyph' = glyph /\ row' = row /\ pixF' = pixF /\ pixB' = pixB)]_vars
    /\ [][(glyph' # glyph \/ row' # row) => copy' = copy]_vars
    /\ [][(Len(pixF') > Len(pixF) \/ Len(pixB') > Len(pixB))
            => (glyph' = glyph /\ copy' = copy)]_vars
    /\ []((glyph.tag = "Some" /\ glyph0.tag = "Some")
            => Isolated(glyph0.val, glyph.val, rowsF, rowsB))
    /\ []((copy.tag = "Some" /\ copy0.tag = "Some")
            => Isolated(copy0.val, copy.val, copyF, copyB))
    /\ [](row.tag = "Some" => row.val.data = row0.val.data)

\* the glyph stepped from both ends, its clone (taken after the first step)
\* stepped once, and the last row read by one pixel
C19_Witness ==
    /\ Len(rowsF) = 1
    /\ Len(rowsB) = 1
    /\ copy.tag = "Some"
    /\ Len(copy0.val.data) = 2
    /\ Len(copyF) = 1
    /\ Len(copy.val.data) = 1
    /\ Len(glyph.val.data) = 1
    /\ Len(pixF) = 1
    /\ copyF[1].data # rowsB[1].data
====
